---- MODULE Spec2Model ----
(***************************************************************************)
(* A model of elevation/core.py of py-elevation.                           *)
(*                                                                         *)
(* The caller owns two pandas Series objects, elevation_series and         *)
(* distance_series, and calls the module's functions on them.  A function  *)
(* that assigns through .iloc[:] changes the caller's object; a function   *)
(* that builds a new Series leaves it alone.  The state keeps the two      *)
(* objects, the last call (with the contents the objects had when it was   *)
(* made) and what the call returned or raised.                             *)
(*                                                                         *)
(* Samples are floats in the program.  Here a sample is an integer number  *)
(* of ticks, Unit ticks to one elevation unit, so that the mean of up to   *)
(* six whole-unit samples is exact.  Distances are whole distance units.   *)
(* The values a Savitzky-Golay pass or an interpolation produces are not   *)
(* modelled: of a smoothed series the model keeps the length and the       *)
(* identity of the returned object.                                        *)
(***************************************************************************)
EXTENDS Integers, Sequences, FiniteSets

VARIABLES elevation_series, distance_series, call, ret, distance_ds

vars == <<elevation_series, distance_series, call, ret, distance_ds>>

----------------------------------------------------------------------------
(* Bounds of the model *)

MaxLen == 3

MaxElev == 2

MaxDist == 3

(* Default arguments of the program *)

DefaultThreshold == 5

DefaultSampleLen == 5

DefaultWindowLen == 21

DefaultPolyorder == 2

Unit == 3 * 4 * 5

----------------------------------------------------------------------------
(* Arithmetic helpers *)

abs(x) == IF x < 0 THEN 0 - x ELSE x

RECURSIVE Sum(_)
Sum(s) == IF Len(s) = 0 THEN 0 ELSE s[1] + Sum(Tail(s))

SeqsUpTo(S, n) == UNION {[1..k -> S] : k \in 0..n}

----------------------------------------------------------------------------
(* What a call hands back *)

Series(obj, n) == [kind |-> "series", obj |-> obj, len |-> n, val |-> 0, exc |-> ""]

Scalar(v) == [kind |-> "scalar", obj |-> "", len |-> 0, val |-> v, exc |-> ""]

None == [kind |-> "None", obj |-> "", len |-> 0, val |-> 0, exc |-> ""]

Raise(e) == [kind |-> "raise", obj |-> "", len |-> 0, val |-> 0, exc |-> e]

TooShortError == "Exception('Elevation series too short to smooth')"

----------------------------------------------------------------------------
(* threshold_filter: the running reference (core.py 19-24).  The loop    *)
(* reads the samples in order with Series.iteritems (pandas before 2.0).   *)

(* Variant of ThresholdStep that also moves the reference when the         *)
(* difference equals the threshold.                                        *)
ThresholdStepGe(elev, ref_elev, threshold) ==
    IF abs(elev - ref_elev) >= threshold THEN elev ELSE ref_elev

ThresholdStep(elev, ref_elev, threshold) ==
    IF abs(elev - ref_elev) > threshold THEN elev ELSE ref_elev

RECURSIVE ThresholdLoop(_, _, _, _, _)
ThresholdLoop(s, i, ref_elev, threshold, elev_array) ==
    IF i > Len(s)
    THEN elev_array
    ELSE LET r == ThresholdStep(s[i], ref_elev, threshold)
         IN  ThresholdLoop(s, i + 1, r, threshold, Append(elev_array, r))

(* The list threshold_filter assigns to the series; s is not empty. *)
threshold_filter(s, threshold) == ThresholdLoop(s, 1, s[1], threshold, <<>>)

(* flatten_series: every sample becomes the mean (core.py 41).  The mean   *)
(* of an empty series is NaN and is assigned to no sample.                *)
mean(s) == Sum(s) \div Len(s)

flatten_series(s) == [i \in 1..Len(s) |-> IF Len(s) = 0 THEN 0 ELSE mean(s)]

----------------------------------------------------------------------------
(* gain_naive and loss_naive (core.py 184-187, 204) *)

(* Series.diff(1): the first entry is NaN. *)
diff(s) ==
    [i \in 1..Len(s) |->
        IF i = 1 THEN [nan |-> TRUE, v |-> 0]
                 ELSE [nan |-> FALSE, v |-> s[i] - s[i - 1]]]

(* diffs[diffs < 0] = 0.0: NaN < 0 is false, so NaN stays. *)
clip_negative(diffs) ==
    [i \in DOMAIN diffs |->
        IF ~diffs[i].nan /\ diffs[i].v < 0
        THEN [nan |-> FALSE, v |-> 0]
        ELSE diffs[i]]

(* Series.sum() skips NaN; the sum of no entries is 0. *)
RECURSIVE nansum(_)
nansum(diffs) ==
    IF Len(diffs) = 0 THEN 0
    ELSE (IF diffs[1].nan THEN 0 ELSE diffs[1].v) + nansum(Tail(diffs))

gain_naive(s) == nansum(clip_negative(diff(s)))

negate(s) == [i \in DOMAIN s |-> (0 - 1) * s[i]]

loss_naive(s) == 0 - gain_naive(negate(s))

(* gain_threshold has a docstring and no body (core.py 207-222): the call  *)
(* returns None whatever its arguments.                                    *)
gain_threshold(s, threshold) == None

----------------------------------------------------------------------------
(* The library calls of the smoothers, by what they accept and reject *)

(* scipy.signal.savgol_filter(x, window_length, polyorder), mode 'interp', *)
(* on size samples (core.py 96, 149).  It raises ValueError when polyorder *)
(* >= window_length or window_length > size.  An even window_length raises *)
(* ValueError in the releases that require an odd window and is accepted   *)
(* in the later ones: both outcomes are kept.                              *)
savgol_filter(size, window_length, polyorder) ==
    IF polyorder >= window_length THEN {"ValueError"}
    ELSE IF window_length > size THEN {"ValueError"}
    ELSE IF window_length % 2 = 0 THEN {"ValueError", "ok"}
    ELSE {"ok"}

(* scipy.interpolate.interp1d(x, y, kind): x and y must have equal length  *)
(* and at least minval entries, 2 for 'linear' and order + 1 = 3 for       *)
(* 'quadratic' (core.py 137, 161-166).  x is sorted silently               *)
(* (assume_sorted=False).                                                  *)
minval(kind) == IF kind = "linear" THEN 2 ELSE 3

interp1d(len_x, len_y, kind) ==
    IF len_x # len_y THEN "ValueError"
    ELSE IF len_x < minval(kind) THEN "ValueError"
    ELSE "ok"

(* math.ceil(a / b) for b > 0 *)
ceil(a, b) == 0 - ((0 - a) \div b)

(* Variant of n_sample that rounds down. *)
n_sample_floor(d, sample_len) == (d[Len(d)] - d[1]) \div sample_len

(* core.py 129-131 *)
n_sample(d, sample_len) == ceil(d[Len(d)] - d[1], sample_len)

(* np.linspace(start, stop, num), each point a fraction n / d.  The last   *)
(* point is stop itself.                                                   *)
linspace(start, stop, num) ==
    [i \in 1..num |->
        IF num = 1 THEN [n |-> start, d |-> 1]
        ELSE [n |-> start * (num - 1) + (i - 1) * (stop - start), d |-> num - 1]]

----------------------------------------------------------------------------
(* time_smooth (core.py 89-101): works on a copy; every ValueError of the  *)
(* filter is re-raised as the one "too short" Exception.                   *)
time_smooth(s, window_len, polyorder) ==
    {IF o = "ValueError" THEN Raise(TooShortError) ELSE Series("new", Len(s)) :
        o \in savgol_filter(Len(s), window_len, polyorder)}

(* distance_smooth (core.py 129-169): no argument is validated; the        *)
(* errors are the ones the calls it makes raise.  Each outcome is the      *)
(* grid built so far and what the call hands back.                         *)
distance_smooth(d, e, sample_len, window_len, polyorder) ==
    IF Len(d) = 0
    THEN {[grid |-> <<>>, ret |-> Raise("IndexError")]}
    ELSE LET num  == n_sample(d, sample_len) + 1
         IN  IF num < 0
             THEN {[grid |-> <<>>, ret |-> Raise("ValueError")]}
             ELSE LET ds == linspace(d[1], d[Len(d)], num)
                  IN  IF interp1d(Len(d), Len(e), "linear") # "ok"
                      THEN {[grid |-> ds, ret |-> Raise("ValueError")]}
                      ELSE {[grid |-> ds,
                             ret  |-> IF o # "ok" THEN Raise("ValueError")
                                      ELSE IF interp1d(num, num, "quadratic") # "ok"
                                           THEN Raise("ValueError")
                                           ELSE Series("new", Len(d))] :
                               o \in savgol_filter(num, window_len, polyorder)}

----------------------------------------------------------------------------
(* The inputs *)

Elevations == {v * Unit : v \in 0..MaxElev}

Distances == 0..MaxDist

(* The series of the documented examples and of tests/test_basic.py *)
ExampleSeries ==
    { <<0, 1 * Unit, 2 * Unit, 1 * Unit, 0>>,
      <<0, 1 * Unit, 2 * Unit, 3 * Unit, 10 * Unit, 11 * Unit>> }

(* test_basic.py 32: distance 3.0 * i *)
TestDistance(n) == [i \in 1..n |-> 3 * (i - 1)]

(* A level path of n samples *)
Level(n) == [i \in 1..n |-> 0]

(* Every elevation series on the test's distance axis, every distance      *)
(* series under a level path, and the pairs of unequal length.             *)
Inputs ==
    {<<e, TestDistance(Len(e))>> : e \in SeqsUpTo(Elevations, MaxLen) \cup ExampleSeries}
    \cup {<<Level(Len(d)), d>> : d \in SeqsUpTo(Distances, MaxLen)}
    \cup {<<Level(n), TestDistance(m)>> : n \in 0..MaxLen, m \in 0..MaxLen}

Thresholds == {t * Unit : t \in ((0 - 1)..MaxElev) \cup {DefaultThreshold}}

WindowLens == (0..(MaxLen + 1)) \cup {DefaultWindowLen}

Polyorders == 0..DefaultPolyorder

SampleLens == {1, 2, DefaultSampleLen}

Call(op, threshold, sample_len, window_len, polyorder) ==
    [op |-> op, elevation_series |-> elevation_series,
     distance_series |-> distance_series, threshold |-> threshold,
     sample_len |-> sample_len, window_len |-> window_len, polyorder |-> polyorder]

NoArgs(op) ==
    Call(op, DefaultThreshold * Unit, DefaultSampleLen, DefaultWindowLen, DefaultPolyorder)

----------------------------------------------------------------------------
(* The state machine *)

Init ==
    /\ \E in \in Inputs : elevation_series = in[1] /\ distance_series = in[2]
    /\ call = NoArgs("none")
    /\ ret = None
    /\ distance_ds = <<>>

(* core.py 10-28: .iloc[0] of an empty series raises IndexError; otherwise *)
(* the list is assigned into the caller's series, which is returned.       *)
ThresholdFilter ==
    \E threshold \in Thresholds :
        /\ call' = Call("threshold_filter", threshold, DefaultSampleLen,
                        DefaultWindowLen, DefaultPolyorder)
        /\ IF Len(elevation_series) = 0
           THEN /\ ret' = Raise("IndexError")
                /\ UNCHANGED elevation_series
           ELSE /\ elevation_series' = threshold_filter(elevation_series, threshold)
                /\ ret' = Series("elevation_series", Len(elevation_series))
        /\ distance_ds' = <<>>
        /\ UNCHANGED distance_series

(* core.py 31-43 *)
FlattenSeries ==
    /\ call' = NoArgs("flatten_series")
    /\ elevation_series' = flatten_series(elevation_series)
    /\ ret' = Series("elevation_series", Len(elevation_series))
    /\ distance_ds' = <<>>
    /\ UNCHANGED distance_series

(* core.py 46-101 *)
TimeSmooth ==
    \E window_len \in WindowLens, polyorder \in Polyorders :
        /\ call' = Call("time_smooth", DefaultThreshold * Unit, DefaultSampleLen,
                        window_len, polyorder)
        /\ ret' \in time_smooth(elevation_series, window_len, polyorder)
        /\ distance_ds' = <<>>
        /\ UNCHANGED <<elevation_series, distance_series>>

(* core.py 104-169 *)
DistanceSmooth ==
    \E sample_len \in SampleLens, window_len \in WindowLens, polyorder \in Polyorders :
        /\ call' = Call("distance_smooth", DefaultThreshold * Unit, sample_len,
                        window_len, polyorder)
        /\ \E out \in distance_smooth(distance_series, elevation_series,
                                      sample_len, window_len, polyorder) :
               /\ ret' = out.ret
               /\ distance_ds' = out.grid
        /\ UNCHANGED <<elevation_series, distance_series>>

(* core.py 172-187 *)
GainNaive ==
    /\ call' = NoArgs("gain_naive")
    /\ ret' = Scalar(gain_naive(elevation_series))
    /\ distance_ds' = <<>>
    /\ UNCHANGED <<elevation_series, distance_series>>

(* core.py 190-204 *)
LossNaive ==
    /\ call' = NoArgs("loss_naive")
    /\ ret' = Scalar(loss_naive(elevation_series))
    /\ distance_ds' = <<>>
    /\ UNCHANGED <<elevation_series, distance_series>>

(* core.py 207-222 *)
GainThreshold ==
    \E threshold \in Thresholds :
        /\ call' = Call("gain_threshold", threshold, DefaultSampleLen,
                        DefaultWindowLen, DefaultPolyorder)
        /\ ret' = gain_threshold(elevation_series, threshold)
        /\ distance_ds' = <<>>
        /\ UNCHANGED <<elevation_series, distance_series>>

Next ==
    \/ ThresholdFilter
    \/ FlattenSeries
    \/ TimeSmooth
    \/ DistanceSmooth
    \/ GainNaive
    \/ LossNaive
    \/ GainThreshold

Spec == Init /\ [][Next]_vars

(* Every sample stays a whole number of ticks: it is a whole elevation     *)
(* unit, or the series is constant.                                        *)
TicksExact ==
    \/ \A i \in DOMAIN elevation_series : elevation_series[i] % Unit = 0
    \/ \A i, j \in DOMAIN elevation_series : elevation_series[i] = elevation_series[j]

----------------------------------------------------------------------------
(* Vocabulary of the properties *)

before == call.elevation_series

distance_before == call.distance_series

Raised == ret.kind = "raise"

ReturnsSeries == ret.kind = "series"

(* The samples of the series a filter handed back *)
out == elevation_series

Last(s) == s[Len(s)]

NonDecreasing(d) == \A i \in 2..Len(d) : d[i - 1] <= d[i]

StrictlyIncreasing(d) == \A i \in 2..Len(d) : d[i - 1] < d[i]

ValidFilterParameters ==
    /\ call.window_len > 0
    /\ call.window_len % 2 = 1
    /\ call.polyorder < call.window_len

(* Sum over i >= 2 of max(sign * (s[i] - s[i-1]), 0) *)
RECURSIVE RiseSum(_, _, _)
RiseSum(s, sign, i) ==
    IF i < 2 THEN 0
    ELSE LET d == sign * (s[i] - s[i - 1])
         IN  (IF d > 0 THEN d ELSE 0) + RiseSum(s, sign, i - 1)

(* The threshold-gated gain as the design document states it *)
RECURSIVE GatedGain(_, _, _, _, _)
GatedGain(s, i, ref, gain, t) ==
    IF i > Len(s) THEN gain
    ELSE IF s[i] - ref > t THEN GatedGain(s, i + 1, s[i], gain + (s[i] - ref), t)
    ELSE IF s[i] - ref < 0 THEN GatedGain(s, i + 1, s[i], gain, t)
    ELSE GatedGain(s, i + 1, ref, gain, t)

ThresholdExample == <<0, 1 * Unit, 2 * Unit, 3 * Unit, 10 * Unit, 11 * Unit>>

GainExample == <<0, 1 * Unit, 2 * Unit, 1 * Unit, 0>>

----------------------------------------------------------------------------
(* C1: no operation mutates its input.  After a call of threshold_filter,  *)
(* flatten_series, time_smooth, distance_smooth, gain_naive or loss_naive  *)
(* the caller's elevation and distance series hold what they held before   *)
(* the call, and a returned series is a new object.                        *)
C1_NoOperationMutatesItsInput ==
    call.op \in {"threshold_filter", "flatten_series", "time_smooth",
                 "distance_smooth", "gain_naive", "loss_naive"}
    => /\ elevation_series = before
       /\ distance_series = distance_before
       /\ (ReturnsSeries => ret.obj = "new")

(* C2: for a non-empty series and a threshold > 0, threshold_filter hands  *)
(* back as many samples as it was given; the first is the first input      *)
(* sample, and each later one is the input sample when that differs from   *)
(* the previous output by more than the threshold, else the previous       *)
(* output.  [0,1,2,3,10,11] with threshold 5 gives [0,0,0,0,10,10].        *)
C2_ThresholdFilterIsRunningReference ==
    (call.op = "threshold_filter" /\ Len(before) > 0 /\ call.threshold > 0)
    => /\ ReturnsSeries
       /\ ret.len = Len(before)
       /\ Len(out) = Len(before)
       /\ out[1] = before[1]
       /\ \A i \in 2..Len(before) :
              out[i] = IF abs(before[i] - out[i - 1]) > call.threshold
                       THEN before[i]
                       ELSE out[i - 1]
       /\ (before = ThresholdExample /\ call.threshold = 5 * Unit)
          => out = <<0, 0, 0, 0, 10 * Unit, 10 * Unit>>

C2_Witness ==
    /\ call.op = "threshold_filter"
    /\ before = ThresholdExample
    /\ call.threshold = 5 * Unit
    /\ ReturnsSeries
    /\ out[5] # out[4]

(* C3: for a non-empty series, gain_naive(s) - loss_naive(s) is            *)
(* s[last] - s[first].                                                     *)
C3_GainMinusLossTelescopes ==
    (call.op = "loss_naive" /\ Len(before) > 0)
    => gain_naive(before) - ret.val = Last(before) - before[1]

(* C4: for a non-empty series, gain_naive is the sum of the positive       *)
(* consecutive differences, and loss_naive is gain_naive of the negated    *)
(* series, the non-negative sum of the negative differences' sizes; both   *)
(* are 2 for [0,1,2,1,0].                                                  *)
C4_NaiveGainAndLossSums ==
    /\ (call.op = "gain_naive" /\ Len(before) > 0)
       => /\ ret.val = RiseSum(before, 1, Len(before))
          /\ (before = GainExample => ret.val = 2 * Unit)
    /\ (call.op = "loss_naive" /\ Len(before) > 0)
       => /\ ret.val = gain_naive(negate(before))
          /\ ret.val = RiseSum(before, 0 - 1, Len(before))
          /\ ret.val >= 0
          /\ (before = GainExample => ret.val = 2 * Unit)

(* C5: for a non-empty series and a threshold > 0, gain_threshold returns  *)
(* the number of the reference scan: a rise above the reference by more    *)
(* than the threshold is added and moves the reference, a drop below the   *)
(* reference moves it without adding; the result is never None.            *)
C5_GainThresholdIsGatedScan ==
    (call.op = "gain_threshold" /\ Len(before) > 0 /\ call.threshold > 0)
    => /\ ret.kind = "scalar"
       /\ ret.val = GatedGain(before, 2, before[1], 0, call.threshold)

(* C6: time_smooth fails with the too-short error exactly when the filter  *)
(* parameters are valid and the series is shorter than the window, and     *)
(* with another error when polyorder >= window_len or window_len is not a  *)
(* positive odd integer, whatever the length of the series.                *)
C6_TimeSmoothTellsFailuresApart ==
    call.op = "time_smooth"
    => /\ (ret = Raise(TooShortError))
          <=> (ValidFilterParameters /\ Len(before) < call.window_len)
       /\ ~ValidFilterParameters => (Raised /\ ret.exc # TooShortError)

(* C7: distance_smooth rejects series of unequal length and a distance     *)
(* series that is not non-decreasing with an invalid-input error and       *)
(* returns nothing; with valid inputs and a grid of fewer points than the  *)
(* window it fails with the too-short error.  distance_smooth raises no    *)
(* error of its own, so an error of any kind is read here as the one the   *)
(* claim names.                                                            *)
C7_DistanceSmoothValidates ==
    call.op = "distance_smooth"
    => /\ (Len(distance_before) # Len(before) \/ ~NonDecreasing(distance_before))
          => Raised
       /\ ( /\ Len(distance_before) = Len(before)
            /\ Len(distance_before) > 0
            /\ NonDecreasing(distance_before)
            /\ ValidFilterParameters
            /\ ceil(Last(distance_before) - distance_before[1], call.sample_len) + 1
                 < call.window_len )
          => Raised

(* C8: threshold_filter, flatten_series, gain_naive, loss_naive and        *)
(* gain_threshold fail on an empty series, and threshold_filter fails on   *)
(* a threshold <= 0; no value is returned.                                 *)
C8_InvalidArgumentsAreRejected ==
    /\ ( /\ call.op \in {"threshold_filter", "flatten_series", "gain_naive",
                         "loss_naive", "gain_threshold"}
         /\ Len(before) = 0 )
       => Raised
    /\ (call.op = "threshold_filter" /\ call.threshold <= 0) => Raised

(* C9 as stated: with a series at least as long as an odd window longer    *)
(* than the polynomial order, time_smooth returns a series of the same     *)
(* length; with distance and elevation of equal length, a strictly         *)
(* increasing distance and a grid of n + 1 >= window_len points,           *)
(* distance_smooth builds a grid of exactly n + 1 points from the first    *)
(* to the last distance and returns one sample per distance.               *)
TimeSmoothValid ==
    /\ call.op = "time_smooth"
    /\ ValidFilterParameters
    /\ Len(before) >= call.window_len

DistanceSmoothValid ==
    /\ call.op = "distance_smooth"
    /\ ValidFilterParameters
    /\ Len(distance_before) = Len(before)
    /\ Len(distance_before) > 0
    /\ StrictlyIncreasing(distance_before)
    /\ ceil(Last(distance_before) - distance_before[1], call.sample_len) + 1
         >= call.window_len

GridSpansDistance ==
    LET n == ceil(Last(distance_before) - distance_before[1], call.sample_len)
    IN  /\ Len(distance_ds) = n + 1
        /\ distance_ds[1].n = distance_before[1] * distance_ds[1].d
        /\ distance_ds[n + 1].n = Last(distance_before) * distance_ds[n + 1].d

C9_SmoothersPreserveLength ==
    /\ TimeSmoothValid => (ReturnsSeries /\ ret.len = Len(before))
    /\ DistanceSmoothValid
       => (GridSpansDistance /\ ReturnsSeries /\ ret.len = Len(distance_before))

(* C9 amended: the same, for distance_smooth when the grid also has at     *)
(* least three points, which the quadratic back-interpolation needs.       *)
C9_SmoothersPreserveLengthOnThreePointGrid ==
    /\ TimeSmoothValid => (ReturnsSeries /\ ret.len = Len(before))
    /\ ( /\ DistanceSmoothValid
         /\ ceil(Last(distance_before) - distance_before[1], call.sample_len) + 1 >= 3 )
       => /\ GridSpansDistance
          /\ ReturnsSeries
          /\ ret.len = Len(distance_before)

C9_Witness ==
    /\ DistanceSmoothValid
    /\ ReturnsSeries
    /\ Len(distance_ds) >= 3
    /\ (Last(distance_before) - distance_before[1]) % call.sample_len # 0
    /\ Len(distance_before) = 3

(* C10: for a non-empty series and a threshold > 0,                        *)
(* 0 <= gain_threshold(s, t) <= gain_naive(s).                             *)
C10_GainThresholdIsConservative ==
    (call.op = "gain_threshold" /\ Len(before) > 0 /\ call.threshold > 0)
    => /\ ret.kind = "scalar"
       /\ 0 <= ret.val
       /\ ret.val <= gain_naive(before)

====
